---- MODULE Spec2Model ----
(***************************************************************************)
(* Model of qiskit/backends/providerutils.py: filter_backends and          *)
(* resolve_backend_name.  Both are pure functions over caller-supplied     *)
(* backend handles; each is an operator computed as the code computes it,  *)
(* and one action per function applies it to inputs drawn from bounded     *)
(* sets.  Diagnostics written to the logger are kept in the variable log.  *)
(***************************************************************************)
EXTENDS Integers, Sequences, FiniteSets

\* ---------------------------------------------------------------- bounds
MaxBackends == 2
MaxAlias == 2

\* ---------------------------------------------------------------- values
\* Python's None, as returned by dict.get for an absent key.
None == "None"

\* Attribute names used as criteria and in configuration()/status().
Keys == {"k1", "k2"}
\* Attribute values; None is a legal value of a criterion or an attribute.
Values == {None, "v1"}
\* Backend names; the empty string is a legal Python string.
Names == {"", "a", "b"}
\* Values of the alternatives table.
AltNames == {"alt"}

\* A Python dict: a function from a finite set of keys.
Dicts(K, V) == UNION {[D -> V] : D \in SUBSET K}
\* Dicts with at most one item.
SmallDicts(K, V) == UNION {[D -> V] : D \in {{}} \cup {{k} : k \in K}}
EmptyDict == [k \in {} |-> None]

SeqsUpTo(S, n) == UNION {[1..m -> S] : m \in 0..n}

\* dict.get(key): the value, or None when the key is absent.
DictGet(dict_, key_) == IF key_ \in DOMAIN dict_ THEN dict_[key_] ELSE None

\* dict.get(key, default)
DictGetDefault(dict_, key_, default) ==
    IF key_ \in DOMAIN dict_ THEN dict_[key_] ELSE default

\* ------------------------------------------------------- filter_backends
\* The acceptor argument: None, or a callable (named by what it computes).
Filters == {"None", "has_k1", "reject"}

\* filter(filters, backends) keeps b when filters(b) is true; with
\* filters=None it keeps b when b itself is true, which every backend
\* object is (BaseBackend defines neither __bool__ nor __len__).
AcceptsNoneRejects(filters, b) ==
    CASE filters = "None" -> FALSE
      [] filters = "has_k1" -> "k1" \in DOMAIN b.configuration
      [] filters = "reject" -> FALSE

Accepts(filters, b) ==
    CASE filters = "None" -> TRUE
      [] filters = "has_k1" -> "k1" \in DOMAIN b.configuration
      [] filters = "reject" -> FALSE

MatchAllKeysOnly(dict_, criteria) ==
    \A key_ \in DOMAIN criteria : key_ \in DOMAIN dict_

\* _match_all
MatchAll(dict_, criteria) ==
    \A key_ \in DOMAIN criteria : DictGet(dict_, key_) = criteria[key_]

InAllConfigurations(key, backends) ==
    \A i \in 1..Len(backends) : key \in DOMAIN backends[i].configuration

ConfigurationFilters(backends, kwargs) ==
    [key \in {k \in DOMAIN kwargs : InAllConfigurations(k, backends)}
        |-> kwargs[key]]

StatusFilters(backends, kwargs) ==
    [key \in {k \in DOMAIN kwargs : ~InAllConfigurations(k, backends)}
        |-> kwargs[key]]

\* 1. backend.configuration filtering
AfterConfiguration(backends, kwargs) ==
    LET configuration_filters == ConfigurationFilters(backends, kwargs)
    IN  IF DOMAIN configuration_filters # {}
        THEN SelectSeq(backends,
                 LAMBDA b : MatchAll(b.configuration, configuration_filters))
        ELSE backends

\* The handles whose status() is called, in call order.
StatusQueried(backends, kwargs) ==
    IF DOMAIN StatusFilters(backends, kwargs) # {}
    THEN AfterConfiguration(backends, kwargs)
    ELSE <<>>

\* 2. backend.status filtering
AfterStatus(backends, kwargs) ==
    LET status_filters == StatusFilters(backends, kwargs)
        remaining == AfterConfiguration(backends, kwargs)
    IN  IF DOMAIN status_filters # {}
        THEN SelectSeq(remaining,
                 LAMBDA b : MatchAll(b.status, status_filters))
        ELSE remaining

\* 3. acceptor filter, and the returned list
FilterBackends(backends, filters, kwargs) ==
    SelectSeq(AfterStatus(backends, kwargs), LAMBDA b : Accepts(filters, b))

\* -------------------------------------------------- resolve_backend_name
\* A Python value that is either a str or a list of str.
Str(s) == [islist |-> FALSE, str |-> s, list |-> <<>>]
List(l) == [islist |-> TRUE, str |-> "", list |-> l]

Available(backends) == {backends[i].name : i \in 1..Len(backends)}

CandidateAliasFirst(name, deprecated, aliased) ==
    DictGetDefault(aliased, name, DictGetDefault(deprecated, name, Str(name)))

\* deprecated.get(name, aliased.get(name, name))
Candidate(name, deprecated, aliased) ==
    DictGetDefault(deprecated, name, DictGetDefault(aliased, name, Str(name)))

LastAvailable(list, available) ==
    LET hits == {i \in 1..Len(list) : list[i] \in available}
    IN  IF hits = {} THEN ""
        ELSE list[CHOOSE i \in hits : \A j \in hits : i >= j]

\* next((b for b in resolved_name if b in available), "")
FirstAvailable(list, available) ==
    LET hits == {i \in 1..Len(list) : list[i] \in available}
    IN  IF hits = {} THEN ""
        ELSE list[CHOOSE i \in hits : \A j \in hits : i <= j]

ResolvedName(name, backends, deprecated, aliased) ==
    LET c == Candidate(name, deprecated, aliased)
    IN  IF c.islist THEN FirstAvailable(c.list, Available(backends))
        ELSE c.str

FoundOrNonEmpty(resolved_name, backends) ==
    resolved_name \in Available(backends) \/ resolved_name # ""

FoundOrNoBackends(resolved_name, backends) ==
    resolved_name \in Available(backends) \/ Len(backends) = 0

Found(resolved_name, backends) == resolved_name \in Available(backends)

\* One logger.warning call.
Warning(kind, first, second, listing) ==
    [kind |-> kind, first |-> first, second |-> second, listing |-> listing]

DiagnosticsNamingCandidate(name, backends, deprecated, aliased, alternatives) ==
    LET resolved == ResolvedName(name, backends, deprecated, aliased)
    IN  IF ~Found(resolved, backends)
        THEN IF resolved \in DOMAIN alternatives
             THEN <<Warning("alternative", resolved, alternatives[resolved],
                            <<>>)>>
             ELSE <<Warning("available", name, "",
                            [i \in 1..Len(backends) |-> backends[i].name])>>
        ELSE IF name \in DOMAIN deprecated
             THEN <<Warning("deprecated", name, resolved, <<>>)>>
             ELSE <<>>

Diagnostics(name, backends, deprecated, aliased, alternatives) ==
    LET resolved == ResolvedName(name, backends, deprecated, aliased)
    IN  IF ~Found(resolved, backends)
        THEN IF resolved \in DOMAIN alternatives
             THEN <<Warning("alternative", name, alternatives[resolved], <<>>)>>
             ELSE <<Warning("available", name, "",
                            [i \in 1..Len(backends) |-> backends[i].name])>>
        ELSE IF name \in DOMAIN deprecated
             THEN <<Warning("deprecated", name, resolved, <<>>)>>
             ELSE <<>>

\* ----------------------------------------------------------------- state
VARIABLES
    op,             \* "idle", "filter" or "resolve": the call that was made
    backends,       \* argument backends
    kwargs,         \* filter_backends: the criteria
    filters,        \* filter_backends: the acceptor
    result,         \* filter_backends: the returned list
    statusQueried,  \* filter_backends: handles whose status() was called
    name,           \* resolve_backend_name: argument name
    deprecated,     \* resolve_backend_name: argument deprecated
    aliased,        \* resolve_backend_name: argument aliased
    alternatives,   \* resolve_backend_name: argument alternatives
    resolved_name,  \* resolve_backend_name: local resolved_name
    outcome,        \* resolve_backend_name: "returned" or "LookupError"
    log             \* warnings emitted, in order

vars == <<op, backends, kwargs, filters, result, statusQueried, name,
          deprecated, aliased, alternatives, resolved_name, outcome, log>>

\* Handles given to filter_backends: name() is never read there.
FilterHandles ==
    [name : {"a"}, configuration : Dicts(Keys, Values),
     status : Dicts({"k1"}, Values)]

\* Handles given to resolve_backend_name: only name() is read there.
ResolveHandles ==
    [name : Names, configuration : {EmptyDict}, status : {EmptyDict}]

Init ==
    /\ op = "idle"
    /\ backends = <<>>
    /\ kwargs = EmptyDict
    /\ filters = "None"
    /\ result = <<>>
    /\ statusQueried = <<>>
    /\ name = ""
    /\ deprecated = EmptyDict
    /\ aliased = EmptyDict
    /\ alternatives = EmptyDict
    /\ resolved_name = ""
    /\ outcome = "none"
    /\ log = <<>>

filter_backends ==
    /\ op = "idle"
    /\ \E bs \in SeqsUpTo(FilterHandles, MaxBackends),
          f \in Filters, kw \in Dicts(Keys, Values) :
        /\ backends' = bs
        /\ filters' = f
        /\ kwargs' = kw
        /\ statusQueried' = StatusQueried(bs, kw)
        /\ result' = FilterBackends(bs, f, kw)
    /\ op' = "filter"
    /\ UNCHANGED <<name, deprecated, aliased, alternatives, resolved_name,
                   outcome, log>>

\* deprecated and aliased are read at the key name only, so one item each
\* reaches every behaviour; alternatives is read at resolved_name.
resolve_backend_name ==
    /\ op = "idle"
    /\ \E n \in Names, bs \in SeqsUpTo(ResolveHandles, MaxBackends),
          d \in SmallDicts(Names, {Str(s) : s \in Names}),
          al \in SmallDicts(Names, {List(l) : l \in SeqsUpTo(Names, MaxAlias)}),
          alt \in Dicts(Names, AltNames) :
        /\ name' = n
        /\ backends' = bs
        /\ deprecated' = d
        /\ aliased' = al
        /\ alternatives' = alt
        /\ resolved_name' = ResolvedName(n, bs, d, al)
        /\ outcome' = IF Found(ResolvedName(n, bs, d, al), bs)
                      THEN "returned" ELSE "LookupError"
        /\ log' = Diagnostics(n, bs, d, al, alt)
    /\ op' = "resolve"
    /\ UNCHANGED <<kwargs, filters, result, statusQueried>>

Next == filter_backends \/ resolve_backend_name

Spec == Init /\ [][Next]_vars
\* ---------------------------------------------------------------- claims
InList(x, list) == \E i \in 1..Len(list) : list[i] = x

\* C1: resolve_backend_name either raises LookupError or returns the name
\* of at least one handle of the supplied backends list.
C1_ReturnsAvailableName ==
    (op = "resolve" /\ outcome = "returned")
        => \E i \in 1..Len(backends) : backends[i].name = resolved_name

C1_Witness ==
    /\ op = "resolve" /\ outcome = "returned"
    /\ resolved_name # name
    /\ Len(backends) = 2 /\ backends[1].name # backends[2].name

\* C2: with empty kwargs and filters=None, filter_backends returns a list
\* equal to its input: same handles, same order, same length.
C2_Identity ==
    (op = "filter" /\ DOMAIN kwargs = {} /\ filters = "None")
        => result = backends

C2_Witness ==
    /\ op = "filter" /\ DOMAIN kwargs = {} /\ filters = "None"
    /\ Len(backends) = 2 /\ backends[1] # backends[2]
    /\ result = backends

\* C3: with a single criterion {k: v} whose key every handle has in its
\* configuration, and no acceptor, the result is exactly the handles with
\* configuration()[k] == v, in input order, and no status() is queried.
C3_ConfigurationOnly ==
    \A k \in Keys :
        (/\ op = "filter" /\ filters = "None" /\ DOMAIN kwargs = {k}
         /\ \A i \in 1..Len(backends) : k \in DOMAIN backends[i].configuration)
        => /\ result = SelectSeq(backends,
                           LAMBDA h : h.configuration[k] = kwargs[k])
           /\ statusQueried = <<>>

C3_Witness ==
    /\ op = "filter" /\ filters = "None" /\ DOMAIN kwargs = {"k1"}
    /\ Len(backends) = 2
    /\ \A i \in 1..2 : "k1" \in DOMAIN backends[i].configuration
    /\ backends[1].configuration["k1"] # kwargs["k1"]
    /\ backends[2].configuration["k1"] = kwargs["k1"]
    /\ backends[2].status # EmptyDict
    /\ DictGet(backends[2].status, "k1") # kwargs["k1"]
    /\ result = <<backends[2]>>

\* C4: a criterion key absent from the configuration of at least one input
\* handle is matched against status only: a handle is kept only if its
\* status maps the key to the required value.
C4_StatusRouted ==
    \A k \in Keys :
        (/\ op = "filter" /\ k \in DOMAIN kwargs
         /\ \E i \in 1..Len(backends) : k \notin DOMAIN backends[i].configuration)
        => \A j \in 1..Len(result) :
              /\ k \in DOMAIN result[j].status
              /\ result[j].status[k] = kwargs[k]

\* C5: a name that is a key of deprecated whose replacement is available
\* resolves to deprecated[name], before aliased and the identity fallback,
\* with a deprecation warning naming both names; that warning is emitted
\* only on a successful resolution of a key of deprecated.
C5_Deprecated ==
    /\ (/\ op = "resolve" /\ name \in DOMAIN deprecated
        /\ InList([name |-> deprecated[name].str, configuration |-> EmptyDict,
                   status |-> EmptyDict], backends))
       => /\ outcome = "returned"
          /\ resolved_name = deprecated[name].str
          /\ log = <<Warning("deprecated", name, deprecated[name].str, <<>>)>>
    /\ (\E i \in 1..Len(log) : log[i].kind = "deprecated")
       => (op = "resolve" /\ outcome = "returned"
           /\ name \in DOMAIN deprecated)

C5_Witness ==
    /\ op = "resolve" /\ outcome = "returned"
    /\ name \in DOMAIN deprecated /\ name \in DOMAIN aliased
    /\ Len(aliased[name].list) > 0
    /\ InList(aliased[name].list[1], [i \in 1..Len(backends) |-> backends[i].name])
    /\ aliased[name].list[1] # deprecated[name].str
    /\ name # deprecated[name].str
    /\ resolved_name = deprecated[name].str
    /\ Len(log) = 1 /\ log[1].kind = "deprecated"

\* C6: for a name that is not a key of deprecated and whose alias sequence
\* has an available element, the first available element in sequence order
\* is returned.
C6_AliasPriority ==
    (/\ op = "resolve" /\ name \notin DOMAIN deprecated
     /\ name \in DOMAIN aliased
     /\ \E i \in 1..Len(aliased[name].list) :
           \E b \in 1..Len(backends) : backends[b].name = aliased[name].list[i])
    => /\ outcome = "returned"
       /\ \E i \in 1..Len(aliased[name].list) :
             /\ resolved_name = aliased[name].list[i]
             /\ \E b \in 1..Len(backends) : backends[b].name = resolved_name
             /\ \A j \in 1..(i - 1) :
                   \A b \in 1..Len(backends) :
                       backends[b].name # aliased[name].list[j]

C6_Witness ==
    /\ op = "resolve" /\ name \notin DOMAIN deprecated
    /\ name \in DOMAIN aliased /\ Len(aliased[name].list) = 2
    /\ \A b \in 1..Len(backends) : backends[b].name # aliased[name].list[1]
    /\ outcome = "returned"
    /\ resolved_name = aliased[name].list[2]
    /\ resolved_name # name

\* C7 as stated: a name that no handle has raises LookupError whatever the
\* tables hold.
C7_MissingAlwaysRaises ==
    (op = "resolve" /\ \A b \in 1..Len(backends) : backends[b].name # name)
        => outcome = "LookupError"

\* C7 amended: a name that no handle has and that is a key of neither
\* deprecated nor aliased raises LookupError whatever alternatives holds.
C7_MissingUnmappedRaises ==
    (/\ op = "resolve"
     /\ \A b \in 1..Len(backends) : backends[b].name # name
     /\ name \notin DOMAIN deprecated /\ name \notin DOMAIN aliased)
    => outcome = "LookupError"

C7_Witness ==
    /\ op = "resolve"
    /\ \A b \in 1..Len(backends) : backends[b].name # name
    /\ name \notin DOMAIN deprecated /\ name \notin DOMAIN aliased
    /\ DOMAIN deprecated # {} /\ DOMAIN aliased # {}
    /\ name \in DOMAIN alternatives
    /\ Len(backends) > 0
    /\ outcome = "LookupError"

\* C8 as stated: on failure with the candidate a key of alternatives,
\* exactly one single-alternative warning is emitted, naming the
\* unavailable candidate and alternatives[candidate].
C8_NamesCandidate ==
    (/\ op = "resolve" /\ outcome = "LookupError"
     /\ resolved_name \in DOMAIN alternatives)
    => log = <<Warning("alternative", resolved_name,
                       alternatives[resolved_name], <<>>)>>

\* C8 amended: on failure with the candidate a key of alternatives,
\* exactly one single-alternative warning is emitted, naming the originally
\* requested name and alternatives[candidate].
C8_NamesRequested ==
    (/\ op = "resolve" /\ outcome = "LookupError"
     /\ resolved_name \in DOMAIN alternatives)
    => log = <<Warning("alternative", name,
                       alternatives[resolved_name], <<>>)>>

C8_Witness ==
    /\ op = "resolve" /\ outcome = "LookupError"
    /\ resolved_name \in DOMAIN alternatives
    /\ resolved_name # name
    /\ name \notin DOMAIN alternatives
    /\ Len(log) = 1 /\ log[1].kind = "alternative"

\* C9: a handle whose status lacks the key of a status-routed criterion is
\* excluded from the result, for every required value including None.
C9_AbsentStatusKeyExcluded ==
    \A k \in Keys :
        (/\ op = "filter" /\ k \in DOMAIN kwargs
         /\ \E i \in 1..Len(backends) : k \notin DOMAIN backends[i].configuration)
        => \A j \in 1..Len(result) : k \in DOMAIN result[j].status

\* C10: when name is not a key of deprecated and no element of its alias
\* sequence is available, the candidate is the empty string and the call
\* raises LookupError, whatever the handles' names are.
C10_EmptyCandidateRaises ==
    (/\ op = "resolve" /\ name \notin DOMAIN deprecated
     /\ name \in DOMAIN aliased
     /\ \A i \in 1..Len(aliased[name].list) :
           \A b \in 1..Len(backends) : backends[b].name # aliased[name].list[i])
    => (resolved_name = "" /\ outcome = "LookupError")
====
